---- MODULE Spec2Model ----
(***************************************************************************)
(* SuperMarioBrosRandomStagesEnv (gym_super_mario_bros/                    *)
(* smb_random_stages_env.py): the wrapper that owns an 8 x 4 grid of       *)
(* per-level simulation instances, selects one of them at every reset and  *)
(* unlocks stages as the agent completes them.                             *)
(*                                                                         *)
(* A "world-stage" identifier is a sequence of one-character strings, so   *)
(* that formatting (f"{world}-{stage}") and parsing (split("-"), int) are  *)
(* computed and not assumed to be inverse to each other.                   *)
(***************************************************************************)
EXTENDS Integers, Sequences, FiniteSets, TLC

VARIABLES
    stages,                  \* self.stages: the constructor's stage set
    unlock_stages,           \* self.unlock_stages = int(unlock_stages)
    balance_steps_per_stage, \* self.balance_steps_per_stage
    render_mode,             \* self.render_mode
    envs,                    \* self.envs: the grid of instances
    env,                     \* self.env: the active instance (a grid slot) or None
    max_unlocked,            \* self.max_unlocked
    stages_weights,          \* self.stages_weights
    count_finished,          \* self.count_finished
    steps_per_stage,         \* self.steps_per_stage
    stage_index,             \* self.stage_index (0-based) or NoIndex
    level,                   \* self.level, or None while the attribute is unset
    closes_done,             \* history: close() calls that ran to completion
    close_calls,             \* history: close() calls issued
    res,                     \* observation of the last call and its outcome
    np_random,               \* self.np_random: the seed applied and the draws since
    seeds_returned,          \* the value returned by the last seed() call
    first_pick               \* history: per seed, the stage a seeded reset selected

vars == <<stages, unlock_stages, balance_steps_per_stage, render_mode, envs, env,
          max_unlocked, stages_weights, count_finished, steps_per_stage,
          stage_index, level, closes_done, close_calls, res,
          np_random, seeds_returned, first_pick>>

----------------------------------------------------------------------------
(* Bounds of the model. *)

\* cap on the number of step calls that return (step is disabled beyond it)
MaxSteps == 5
\* cap on the number of close() calls issued
MaxCloses == 2
\* largest unlock_stages threshold tried
MaxUnlock == 1
\* cap on the draws made from a seeded random source before it is reseeded
MaxDraws == 1
\* cap on the total of the step counters where the random source is seeded
MaxSeededSteps == 2

----------------------------------------------------------------------------
(* Values. *)

\* Python's None for self.env, self.level and an absent options mapping
None == <<>>

\* self.stage_index = None
NoIndex == 0 - 1

\* seed=None, and the seed of a random source that was never seeded
NoSeed == 0 - 1

Worlds == 1 .. 8
StagesPerWorld == 1 .. 4
Slots == Worlds \X StagesPerWorld

Min(a, b) == IF a < b THEN a ELSE b
Max(a, b) == IF a > b THEN a ELSE b

DigitChars == <<"0", "1", "2", "3", "4", "5", "6", "7", "8", "9">>

\* str(n) of a non-negative integer
RECURSIVE Str(_)
Str(n) == IF n < 10 THEN <<DigitChars[n + 1]>>
          ELSE Str(n \div 10) \o <<DigitChars[(n % 10) + 1]>>

\* f"{world}-{stage}"
Format(world, stage) == Str(world) \o <<"-">> \o Str(stage)

\* level.split("-"): the pieces between the separators
RECURSIVE Split(_)
Split(s) ==
    IF \A i \in 1 .. Len(s) : s[i] # "-" THEN <<s>>
    ELSE LET k == CHOOSE i \in 1 .. Len(s) :
                      s[i] = "-" /\ \A j \in 1 .. i - 1 : s[j] # "-"
         IN  <<SubSeq(s, 1, k - 1)>> \o Split(SubSeq(s, k + 1, Len(s)))

DigitValue(c) == CHOOSE d \in 0 .. 9 : DigitChars[d + 1] = c

\* int(text) of a string of decimal digits
RECURSIVE ToInt(_)
ToInt(s) == IF Len(s) = 1 THEN DigitValue(s[1])
            ELSE 10 * ToInt(SubSeq(s, 1, Len(s) - 1)) + DigitValue(s[Len(s)])

\* mutant: the slice keeps every element
Take_All(seq, n) == seq

\* seq[:n]
Take(seq, n) == SubSeq(seq, 1, Min(n, Len(seq)))

\* x in seq
Contains(seq, x) == \E i \in 1 .. Len(seq) : seq[i] = x

\* seq.index(x), 0-based, of the first occurrence
IndexOf(seq, x) == (CHOOSE i \in 1 .. Len(seq) :
                        seq[i] = x /\ \A j \in 1 .. i - 1 : seq[j] # x) - 1

----------------------------------------------------------------------------
(* Constructor arguments tried. *)

\* the stage sets the constructor is given: empty (sample uniformly), with
\* and without "1-1", in and out of grid order
StageLists ==
    { <<>>,
      <<Format(1, 1)>>,
      <<Format(1, 2)>>,
      <<Format(1, 1), Format(1, 2)>>,
      <<Format(8, 4), Format(1, 1)>>,
      <<Format(1, 1), Format(1, 2), Format(8, 4)>> }

\* the options["stages"] overrides reset is given: empty, a stage that may be
\* locked or not in the constructor's set, and a set in another order
OverrideLists ==
    { <<>>,
      <<Format(1, 2)>>,
      <<Format(1, 2), Format(1, 1)>> }

\* metadata["render_modes"], and the default render_mode=None
RenderModes == {"None", "human", "rgb_array"}

\* reset's options argument: None, or a mapping with the key "stages"
OptionValues == {None} \cup {<<t>> : t \in OverrideLists}

----------------------------------------------------------------------------
(* Simulation instances (SuperMarioBrosEnv), seen from the wrapper. *)

\* a grid slot holding None
Absent == [built |-> FALSE, live |-> FALSE, closes |-> 0]

\* SuperMarioBrosEnv(rom_mode, target, render_mode): built, not yet reset
NewInstance == [built |-> TRUE, live |-> FALSE, closes |-> 0]

\* the delegated call is within the collaborator's contract: the instance
\* was reset and has not been closed; outside it the call may raise or return
InContract(inst) == inst.built /\ inst.live /\ inst.closes = 0

\* mutant: a slot that holds no instance is handed out like a built one
EnvAt_Raw(world, stage) == <<world + 1, stage + 1>>

\* self.envs[world][stage] with 0-based indices: the slot, or None when the
\* slot holds no instance
EnvAt(world, stage) ==
    IF envs[<<world + 1, stage + 1>>].built THEN <<world + 1, stage + 1>> ELSE None

----------------------------------------------------------------------------
(* Weights.  A weight is kept symbolically: scale * 1 for an entry of      *)
(* np.ones, scale * 1e6 / (1 + ln(steps + 1)) for a balanced entry.  Every *)
(* weight is positive, so every candidate has a positive probability.      *)

One == [balanced |-> FALSE, steps |-> 0, scale |-> 1]

\* np.ones((n,))
Ones(n) == [i \in 1 .. n |-> One]

\* 1e6 / (1 + np.log(self.steps_per_stage + 1))
BalancedWeights(steps) ==
    [i \in 1 .. Len(steps) |-> [balanced |-> TRUE, steps |-> steps[i], scale |-> 1]]

\* w[-1] *= m
ScaleLast(w, m) == [w EXCEPT ![Len(w)].scale = @ * m]

\* w = np.ones((n,)); w[-1] = n
OnesLastSet(n) == [i \in 1 .. n |-> IF i = n THEN [One EXCEPT !.scale = n] ELSE One]

\* np.zeros((n,))
Zeros(n) == [i \in 1 .. n |-> 0]

----------------------------------------------------------------------------
(* The random source (np.random.RandomState), as far as the selection reads *)
(* it: the seed last applied and the number of draws made since.  Without a *)
(* seed the source starts from operating-system entropy: its samples are    *)
(* arbitrary.  Samples and weights are in thousandths.                      *)

\* the seeds callers pass
SeedValues == {0, 5}

\* np.random.RandomState(): not seeded
Unseeded == [seed |-> NoSeed, draws |-> 0]

\* mutant: the seed is not applied to the random source
Seeded_Ignored(rng, seed) == rng

\* self.seed(seed): np_random.seed(seed) unless seed is None
Seeded(rng, seed) == IF seed = NoSeed THEN rng ELSE [seed |-> seed, draws |-> 0]

\* mutant: the seed is returned even when there is none
SeedResult_Always(seed) == <<seed>>

\* the list seed() returns
SeedResult(seed) == IF seed = NoSeed THEN <<>> ELSE <<seed>>

\* the source after k more draws
Drawn(rng, k) == IF rng.seed = NoSeed THEN rng ELSE [rng EXCEPT !.draws = @ + k]

\* the first uniform samples of RandomState(0) and RandomState(5)
\* (0.5488, 0.7152, 0.6028, 0.5449 and 0.2220, 0.8707, 0.2067, 0.9186)
SampleTable(seed) == IF seed = 0 THEN <<549, 715, 603, 545>>
                     ELSE <<222, 871, 207, 919>>

\* the next uniform sample of a seeded source
NextSample(rng) == SampleTable(rng.seed)[rng.draws + 1]

\* 1000 / (1 + ln(steps + 1)) for steps = 0, 1, 2, ...
BalancedTable == <<1000, 591, 477, 419, 383, 358, 339, 325, 313, 303, 294, 287>>

\* the value of a weight
WeightValue(w) == w.scale * (IF w.balanced THEN BalancedTable[w.steps + 1] ELSE 1000)

RECURSIVE WeightSum(_, _)
WeightSum(w, n) == IF n = 0 THEN 0 ELSE WeightSum(w, n - 1) + WeightValue(w[n])

\* cdf.searchsorted(sample, side="right") over p = w / w.sum()
Searched(w, sample) ==
    CHOOSE i \in 1 .. Len(w) :
        /\ sample * WeightSum(w, Len(w)) < 1000 * WeightSum(w, i)
        /\ \A j \in 1 .. i - 1 : sample * WeightSum(w, Len(w)) >= 1000 * WeightSum(w, j)

\* the positions np_random.choice can return
Picks(w, rng) == IF rng.seed = NoSeed THEN 1 .. Len(w) ELSE {Searched(w, NextSample(rng))}

\* no stage recorded for a seed yet
NoPick == [stage |-> None, again |-> FALSE]

----------------------------------------------------------------------------
(* __init__ *)

NoCall == [op |-> "init", raised |-> FALSE, mode |-> "none"]

\* the state __init__ leaves, for arguments drawn from the given sets
Construct(lists, unlocks, balances, renders) ==
    /\ stages \in lists
    /\ unlock_stages \in unlocks
    /\ balance_steps_per_stage \in balances
    /\ render_mode \in renders
    /\ envs = [slot \in Slots |->
                  IF Contains(stages, Format(slot[1], slot[2])) THEN NewInstance
                  ELSE Absent]
    /\ env = EnvAt(0, 0)
    /\ max_unlocked = IF unlock_stages # 0 THEN 1 ELSE Len(stages)
    /\ stages_weights = Ones(IF unlock_stages # 0 THEN 1 ELSE Len(stages))
    /\ count_finished = Zeros(Len(stages))
    /\ steps_per_stage = Zeros(Len(stages))
    /\ stage_index = NoIndex
    /\ level = None
    /\ closes_done = 0
    /\ close_calls = 0
    /\ res = NoCall
    /\ np_random = Unseeded
    /\ seeds_returned = <<>>
    /\ first_pick = [seed \in SeedValues |-> NoPick]

\* every render mode and the stage sets of at most two stages, the curriculum
\* arguments at their defaults (unlock_stages=False, balance_steps_per_stage=False)
Init == Construct({q \in StageLists : Len(q) <= 2}, {0}, {FALSE}, RenderModes)

\* every curriculum argument, render_mode at its default
InitCurriculum == Construct(StageLists, 0 .. MaxUnlock, BOOLEAN, {"None"})

----------------------------------------------------------------------------
(* Observations of a call. *)

\* op: the method called; raised: whether it raised; mode: for a reset, the
\* branch that resolved the stage ("weighted" or "uniform")
Outcome(op, raised, mode) == [op |-> op, raised |-> raised, mode |-> mode]

\* the fields no method assigns after __init__
UNCHANGED_Config == UNCHANGED <<stages, unlock_stages, balance_steps_per_stage, render_mode>>

\* the random source and what was observed of it
UNCHANGED_Random == UNCHANGED <<np_random, seeds_returned, first_pick>>

----------------------------------------------------------------------------
(* reset(seed, options) *)

\* the collection of stages to sample from
EffectiveStages(options) == IF options # None THEN options[1] ELSE stages

\* the weights of the draw: recomputed from steps_per_stage when balancing,
\* before the last one is scaled
DrawWeights ==
    IF balance_steps_per_stage
    THEN Take(BalancedWeights(steps_per_stage), max_unlocked)
    ELSE stages_weights

\* np_random.choice(a, p=...) raises on an empty a and on len(p) # len(a)
ChoiceRaises(cands, weights) == Len(cands) = 0 \/ Len(cands) # Len(weights)

\* reset raises before it rebinds self.env
ResetRaises(weights, lvl) ==
    /\ stages_weights' = weights
    /\ level' = lvl
    /\ res' = Outcome("reset", TRUE, "weighted")
    /\ UNCHANGED <<envs, env, max_unlocked, count_finished, steps_per_stage,
                   stage_index, closes_done, close_calls>>
    /\ UNCHANGED_Config

\* self.env = self.envs[world][stage]; return self.env.reset(seed=seed)
Bind(weights, lvl, idx, world, stage, mode) ==
    /\ stages_weights' = weights
    /\ level' = lvl
    /\ stage_index' = idx
    /\ env' = EnvAt(world, stage)
    /\ IF EnvAt(world, stage) = None
       THEN /\ envs' = envs
            /\ res' = Outcome("reset", TRUE, mode)
       ELSE IF envs[EnvAt(world, stage)].closes = 0
       THEN /\ envs' = [envs EXCEPT ![EnvAt(world, stage)].live = TRUE]
            /\ res' = Outcome("reset", FALSE, mode)
       ELSE /\ envs' = envs
            /\ \E raised \in BOOLEAN :
                   res' = Outcome("reset", raised, mode)
    /\ UNCHANGED <<max_unlocked, count_finished, steps_per_stage, closes_done, close_calls>>
    /\ UNCHANGED_Config

\* the branch that draws from a non-empty stage set; rng is the random
\* source after self.seed(seed)
ResetWeighted(eff, rng) ==
    LET w0 == DrawWeights
        w1 == IF balance_steps_per_stage /\ Len(w0) > 0
              THEN ScaleLast(w0, max_unlocked) ELSE w0
        cands == Take(eff, max_unlocked)
    IN  IF balance_steps_per_stage /\ Len(w0) = 0
        THEN ResetRaises(w0, level) /\ np_random' = rng
        ELSE IF ChoiceRaises(cands, w1)
        THEN ResetRaises(w1, level) /\ np_random' = rng
        ELSE \E i \in Picks(w1, rng) :
                 /\ np_random' = Drawn(rng, 1)
                 /\ IF ~Contains(stages, cands[i])
                    THEN ResetRaises(w1, cands[i])
                    ELSE LET parts == Split(cands[i])
                         IN  Bind(w1, cands[i], IndexOf(stages, cands[i]),
                                  ToInt(parts[1]) - 1, ToInt(parts[2]) - 1, "weighted")

\* the branch taken without a stage set: randint(1, 9) - 1, randint(1, 5) - 1
\* (the integers a seeded source returns are not modelled: any may come)
ResetUniform(rng) ==
    \E world \in 0 .. 7, stage \in 0 .. 3 :
        /\ np_random' = Drawn(rng, 2)
        /\ Bind(stages_weights, level, stage_index, world, stage, "uniform")

\* history: the stage a reset seeded with `seed`, without override, selected
Recorded(seed, options, selected) ==
    IF seed = NoSeed \/ options # None \/ ~selected THEN first_pick
    ELSE IF first_pick[seed].stage = None
    THEN [first_pick EXCEPT ![seed] = [stage |-> level', again |-> FALSE]]
    ELSE [first_pick EXCEPT ![seed].again = TRUE]

\* reset(seed, options)
ResetCall(seed, options) ==
    /\ Seeded(np_random, seed).draws < MaxDraws
    /\ IF Len(EffectiveStages(options)) > 0
       THEN ResetWeighted(EffectiveStages(options), Seeded(np_random, seed))
       ELSE ResetUniform(Seeded(np_random, seed))
    /\ first_pick' = Recorded(seed, options, res'.mode = "weighted" /\ ~res'.raised)
    /\ UNCHANGED seeds_returned

\* reset(options=...): no seed given
Reset == \E options \in OptionValues : ResetCall(NoSeed, options)

\* reset(seed=...): a seed and no options given
ResetSeeded == \E seed \in SeedValues : ResetCall(seed, None)

\* reset(): neither seed nor options given
ResetPlain == ResetCall(NoSeed, None)

----------------------------------------------------------------------------
(* seed(seed) *)

SeedCall(seed) ==
    /\ np_random' = Seeded(np_random, seed)
    /\ seeds_returned' = SeedResult(seed)
    /\ res' = Outcome("seed", FALSE, "none")
    /\ UNCHANGED <<envs, env, max_unlocked, stages_weights, count_finished,
                   steps_per_stage, stage_index, level, closes_done, close_calls,
                   first_pick>>
    /\ UNCHANGED_Config

Seed == \E seed \in {NoSeed} \cup SeedValues : SeedCall(seed)

----------------------------------------------------------------------------
(* step(action) *)

\* a[idx] += 1; indexing a NumPy array with None selects the whole array
Incremented(a, idx) ==
    IF idx = NoIndex THEN [i \in 1 .. Len(a) |-> a[i] + 1]
    ELSE [a EXCEPT ![idx + 1] = @ + 1]

\* mutant: the unlock_stages setting is not consulted
UnlockEnabled_IgnoresSetting(flag) == flag

\* self.unlock_stages and self.env._flag_get
UnlockEnabled(flag) == unlock_stages # 0 /\ flag

\* mutant: the current value is not kept when it is the larger one
Unlocked_NoMax(cur, idx) == idx + 2

\* max(self.max_unlocked, self.stages.index(self.level) + 2)
Unlocked(cur, idx) == Max(cur, idx + 2)

\* mutant: the array is sized before the new stage is counted
RefreshedWeights_Stale(n) ==
    IF ~balance_steps_per_stage THEN OnesLastSet(n - 1) ELSE stages_weights

\* self.stages_weights after an unlock
RefreshedWeights(n) ==
    IF ~balance_steps_per_stage THEN OnesLastSet(n) ELSE stages_weights

\* the truth value of count_finished[stage_index] > unlock_stages:
\* "true", "false" or "error" (an array of several elements has none)
Exceeded(counts, idx) ==
    IF idx # NoIndex
    THEN (IF counts[idx + 1] > unlock_stages THEN {"true"} ELSE {"false"})
    ELSE IF Len(counts) = 1
    THEN (IF counts[1] > unlock_stages THEN {"true"} ELSE {"false"})
    ELSE IF Len(counts) = 0 THEN {"false", "error"}
    ELSE {"error"}

RECURSIVE Sum(_)
Sum(a) == IF Len(a) = 0 THEN 0 ELSE a[1] + Sum(Tail(a))

\* the step counters stay within the model's cap
WithinCap == Sum(steps_per_stage) < MaxSteps

\* the call raises before anything is assigned
StepRaisesEarly ==
    /\ res' = Outcome("step", TRUE, "none")
    /\ UNCHANGED <<envs, env, max_unlocked, stages_weights, count_finished,
                   steps_per_stage, stage_index, level, closes_done, close_calls>>
    /\ UNCHANGED_Config
    /\ UNCHANGED_Random

\* lines 175-186, once self.env.step(action) has returned
StepEffect(flag) ==
    /\ steps_per_stage' = Incremented(steps_per_stage, stage_index)
    /\ IF ~UnlockEnabled(flag)
       THEN /\ res' = Outcome("step", FALSE, "none")
            /\ UNCHANGED <<count_finished, max_unlocked, stages_weights>>
       ELSE /\ count_finished' = Incremented(count_finished, stage_index)
            /\ \E truth \in Exceeded(Incremented(count_finished, stage_index), stage_index) :
                   IF truth = "false"
                   THEN /\ res' = Outcome("step", FALSE, "none")
                        /\ UNCHANGED <<max_unlocked, stages_weights>>
                   ELSE IF truth = "error" \/ ~Contains(stages, level)
                   THEN /\ res' = Outcome("step", TRUE, "none")
                        /\ UNCHANGED <<max_unlocked, stages_weights>>
                   ELSE /\ max_unlocked' = Unlocked(max_unlocked, IndexOf(stages, level))
                        /\ stages_weights' =
                               RefreshedWeights(Unlocked(max_unlocked, IndexOf(stages, level)))
                        /\ res' = Outcome("step", FALSE, "none")
    /\ UNCHANGED <<envs, env, stage_index, level, closes_done, close_calls>>
    /\ UNCHANGED_Config
    /\ UNCHANGED_Random

Step ==
    /\ WithinCap
    /\ IF env = None
       THEN StepRaisesEarly
       ELSE \E returns \in (IF InContract(envs[env]) THEN {TRUE} ELSE BOOLEAN) :
                IF returns THEN \E flag \in BOOLEAN : StepEffect(flag)
                ELSE StepRaisesEarly

----------------------------------------------------------------------------
(* close() *)

\* the position of a slot in the iteration over self.envs
Rank(slot) == (slot[1] - 1) * 4 + slot[2]

BuiltSlots == {slot \in Slots : envs[slot].built}

\* how many constructed instances the loop reaches up to and including slot
BuiltUpTo(slot) == Cardinality({t \in BuiltSlots : Rank(t) <= Rank(slot)})

\* stage.close() has been invoked on the first n constructed instances
ClosedPrefix(n) ==
    [slot \in Slots |->
        IF envs[slot].built /\ BuiltUpTo(slot) <= n
        THEN [envs[slot] EXCEPT !.closes = @ + 1]
        ELSE envs[slot]]

Close ==
    /\ close_calls < MaxCloses
    /\ close_calls' = close_calls + 1
    /\ IF env = None
       THEN /\ res' = Outcome("close", TRUE, "none")
            /\ UNCHANGED <<envs, env, closes_done>>
       ELSE \E n \in 1 .. Cardinality(BuiltSlots), aborted \in BOOLEAN :
                \* the loop runs to its end, or the close of an instance
                \* that was closed before raises and ends it
                /\ IF aborted
                   THEN \E slot \in BuiltSlots :
                            BuiltUpTo(slot) = n /\ envs[slot].closes > 0
                   ELSE n = Cardinality(BuiltSlots)
                /\ envs' = ClosedPrefix(n)
                /\ env' = IF aborted THEN env ELSE None
                /\ closes_done' = IF aborted THEN closes_done ELSE closes_done + 1
                /\ res' = Outcome("close", aborted, "none")
    /\ UNCHANGED <<max_unlocked, stages_weights, count_finished, steps_per_stage,
                   stage_index, level>>
    /\ UNCHANGED_Config
    /\ UNCHANGED_Random

----------------------------------------------------------------------------
(* render() *)

Render ==
    /\ IF render_mode = "None"
       THEN res' = Outcome("render", FALSE, "none")
       ELSE IF env = None
       THEN res' = Outcome("render", TRUE, "none")
       ELSE \E raised \in (IF InContract(envs[env]) THEN {FALSE} ELSE BOOLEAN) :
                res' = Outcome("render", raised, "none")
    /\ UNCHANGED <<envs, env, max_unlocked, stages_weights, count_finished,
                   steps_per_stage, stage_index, level, closes_done, close_calls>>
    /\ UNCHANGED_Config
    /\ UNCHANGED_Random

----------------------------------------------------------------------------

\* every operation of the wrapper
Next == Reset \/ Step \/ Close \/ Render

Spec == Init /\ [][Next]_vars

\* the episodes of a wrapper that is not closed: resets and steps
NextEpisodes == Reset \/ Step

SpecCurriculum == InitCurriculum /\ [][NextEpisodes]_vars

\* a step on an instance that was reset (a step before the first reset is
\* undefined), or one that raises for want of an active instance
StepDefined == (IF env = None THEN TRUE ELSE InContract(envs[env])) /\ Step

\* episodes of callers that pass no options and step only after a reset
NextPlain == ResetPlain \/ StepDefined

SpecPlain == InitCurriculum /\ [][NextPlain]_vars

\* unlocking disabled, balancing on and off, the stages 1-1 and 1-2
InitSeeded ==
    Construct({<<Format(1, 1), Format(1, 2)>>}, {0}, BOOLEAN, {"None"})

\* a step within the cap of the seeded episodes
StepSeeded == Sum(steps_per_stage) < MaxSeededSteps /\ Step

\* episodes of callers that seed the random source
NextSeeded == Seed \/ ResetSeeded \/ Reset \/ StepSeeded

SpecSeeded == InitSeeded /\ [][NextSeeded]_vars

----------------------------------------------------------------------------
(* Properties. *)

\* C1: max_unlocked is at most the number of stages of the constructor's
\* (non-empty) stage set, in every state reached by resets and steps.
C1_MaxUnlockedBounded ==
    Len(stages) > 0 => max_unlocked <= Len(stages)

\* C2: with unlock_stages = k >= 1 and no balancing, a flag-reached step on
\* an unlocked stage leaves max_unlocked alone while the newest unlocked stage
\* has at most k flag-reached outcomes; the (k+1)-th such outcome on the
\* newest stage raises max_unlocked by one, never beyond the stage-set
\* length, and sets stage_weights to ones with the last entry equal to the
\* new max_unlocked.
C2_UnlockAfterKPlusOne ==
    [][ ( /\ unlock_stages >= 1
          /\ ~balance_steps_per_stage
          /\ max_unlocked \in 1 .. Len(stages)
          /\ stage_index \in 0 .. max_unlocked - 1
          /\ res'.op = "step"
          /\ count_finished' = Incremented(count_finished, stage_index) )
        => IF count_finished'[max_unlocked] <= unlock_stages
           THEN max_unlocked' = max_unlocked
           ELSE ( /\ stage_index = max_unlocked - 1
                  /\ count_finished'[max_unlocked] = unlock_stages + 1 )
                => /\ max_unlocked' = Min(max_unlocked + 1, Len(stages))
                   /\ stages_weights' = OnesLastSet(max_unlocked')
      ]_vars

\* C3: the stage a reset records has an index in the stage set strictly
\* below max_unlocked; no stage at index >= max_unlocked becomes active.
C3_SelectedBelowMaxUnlocked ==
    stage_index # NoIndex => stage_index < max_unlocked

\* C4: for a non-empty stage set, once close() has been called, every
\* instance built at construction has had its own close invoked exactly once.
C4_EachInstanceClosedOnce ==
    (Len(stages) > 0 /\ close_calls >= 1) =>
        \A slot \in BuiltSlots : envs[slot].closes = 1

\* C5: for a non-empty stage set, close() raises exactly when an earlier
\* close() on the wrapper has completed; the first close() after construction
\* succeeds.
C5_CloseRaisesIffClosed ==
    (Len(stages) > 0 /\ res.op = "close") =>
        (res.raised <=> closes_done - (IF res.raised THEN 0 ELSE 1) >= 1)

\* C6: Closed is terminal: after a completed close() every call fails and no
\* operation binds an active instance again.
C6_ClosedIsTerminal ==
    [][ closes_done >= 1 => (env' = None /\ res'.raised) ]_vars

\* C7 as stated: the length of stage_weights equals max_unlocked in every
\* state, with or without balancing (stated for the non-empty stage sets).
C7_WeightsLengthAlways ==
    Len(stages) > 0 => Len(stages_weights) = max_unlocked

\* C7 amended: with balance_steps_per_stage disabled, the length of
\* stage_weights equals max_unlocked in every state reached by resets and
\* steps, the state right after an unlocking step included.
C7_WeightsLengthUnbalanced ==
    ~balance_steps_per_stage => Len(stages_weights) = max_unlocked

\* a step has just unlocked a stage, without balancing
C7_Witness ==
    /\ ~balance_steps_per_stage
    /\ unlock_stages >= 1
    /\ res.op = "step" /\ ~res.raised
    /\ max_unlocked >= 2
    /\ stage_index = max_unlocked - 2
    /\ count_finished[stage_index + 1] = unlock_stages + 1
    /\ stages_weights = OnesLastSet(max_unlocked)

\* C8: with unlock_stages disabled, max_unlocked equals the length of the
\* constructor's stage set after construction and after every reset and step.
C8_DisabledKeepsFullLength ==
    unlock_stages = 0 => max_unlocked = Len(stages)

\* steps have returned on a selected stage with unlocking disabled
C8_Witness ==
    /\ unlock_stages = 0
    /\ res.op = "step" /\ ~res.raised
    /\ stage_index # NoIndex
    /\ steps_per_stage[stage_index + 1] >= 2
    /\ max_unlocked = Len(stages)

\* C9: max_unlocked never decreases, whatever operation is applied.
C9_MaxUnlockedMonotone ==
    [][ max_unlocked' >= max_unlocked ]_vars

\* a flag-reached step beyond the threshold has occurred on a stage that is
\* not the newest unlocked one
C9_Witness ==
    /\ unlock_stages >= 1
    /\ res.op = "step" /\ ~res.raised
    /\ stage_index # NoIndex
    /\ stage_index + 2 < max_unlocked
    /\ count_finished[stage_index + 1] >= unlock_stages + 2

\* C10: with an empty stage set, a reset resolves a slot of the grid that
\* holds a constructed instance, makes it the active instance and resets it.
C10_UniformResetBindsInstance ==
    (Len(stages) = 0 /\ res.op = "reset" /\ res.mode = "uniform") =>
        /\ ~res.raised
        /\ env # None
        /\ envs[env].built /\ envs[env].live

\* some reset has returned successfully (its instance was reset)
SomeResetReturned == \E slot \in Slots : envs[slot].live

\* C11: a reset with a non-empty options.stages override T selects one of
\* the first max_unlocked entries of T, makes that stage's instance the
\* active instance and completes without error (stated for the wrappers
\* built with a non-empty stage set).
C11_OverrideResetSucceeds ==
    [][ \A t \in OverrideLists :
            (Len(stages) > 0 /\ Len(t) > 0 /\ ResetCall(NoSeed, <<t>>)) =>
                /\ ~res'.raised
                /\ Contains(Take(t, max_unlocked), level')
                /\ env' # None
                /\ Format(env'[1], env'[2]) = level'
      ]_vars

\* C13: a step issued after a successful reset adds one to steps_taken of
\* the active stage index and leaves every other entry unchanged.
C13_StepCountsOneStage ==
    [][ (SomeResetReturned /\ steps_per_stage' # steps_per_stage) =>
            \E i \in 1 .. Len(steps_per_stage) :
                /\ steps_per_stage' = [steps_per_stage EXCEPT ![i] = @ + 1]
                /\ stage_index # NoIndex => i = stage_index + 1
      ]_vars

\* C14: with unlocking disabled no step changes completion_count,
\* max_unlocked or stage_weights; with unlocking enabled a flag-reached step
\* (after a successful reset) adds one to completion_count of the active
\* stage and of no other stage.
C14_StepFrame ==
    [][ /\ (unlock_stages = 0 /\ res'.op = "step") =>
               UNCHANGED <<count_finished, max_unlocked, stages_weights>>
        /\ (unlock_stages # 0 /\ SomeResetReturned /\ count_finished' # count_finished) =>
               \E i \in 1 .. Len(count_finished) :
                   /\ count_finished' = [count_finished EXCEPT ![i] = @ + 1]
                   /\ stage_index # NoIndex => i = stage_index + 1
      ]_vars

\* C16: after every reset that returns successfully, the recorded stage
\* identifier and stage index designate the stage of the active instance.
C16_RecordedStageIsActive ==
    (res.op = "reset" /\ ~res.raised) =>
        /\ level # None
        /\ stage_index # NoIndex
        /\ stages[stage_index + 1] = level
        /\ env # None
        /\ Format(env[1], env[2]) = level

\* C18: after every successful reset the active instance is a constructed
\* instance; when the reset drew from a stage set it is the one at the grid
\* slot parsed from the selected identifier.
C18_ActiveInstanceIsBuilt ==
    (res.op = "reset" /\ ~res.raised) =>
        /\ env # None
        /\ envs[env].built
        /\ res.mode = "weighted" => Format(env[1], env[2]) = level

\* a draw from the stage set has bound the instance of stage "8-4"
C18_Witness ==
    /\ res.op = "reset" /\ ~res.raised /\ res.mode = "weighted"
    /\ level = Format(8, 4)
    /\ env = <<8, 4>>
    /\ envs[env].built /\ envs[env].live


\* the weights and the candidates of the draw a reset() would make now
NextDrawWeights ==
    IF balance_steps_per_stage /\ Len(DrawWeights) > 0
    THEN ScaleLast(DrawWeights, max_unlocked) ELSE DrawWeights

NextCandidates == Take(stages, max_unlocked)

\* C17: on a non-empty stage set, without override and close, the draw of
\* the next reset is always well formed: as many weights as candidate
\* stages stages[:max_unlocked], and at least one.
C17_DrawWellFormed ==
    Len(stages) > 0 =>
        /\ Len(NextDrawWeights) = Len(NextCandidates)
        /\ Len(NextDrawWeights) >= 1

\* C19: with unlocking enabled and no override, a stage whose steps_taken or
\* completion_count is greater than zero has an index below max_unlocked.
C19_OnlyUnlockedAccumulate ==
    unlock_stages # 0 =>
        \A i \in 1 .. Len(stages) :
            (steps_per_stage[i] > 0 \/ count_finished[i] > 0) => i - 1 < max_unlocked

\* a second stage was unlocked and stepped while a third stays locked and untouched
C19_Witness ==
    /\ unlock_stages # 0
    /\ Len(stages) = 3
    /\ max_unlocked = 2
    /\ steps_per_stage[2] > 0 /\ count_finished[2] > 0
    /\ steps_per_stage[3] = 0 /\ count_finished[3] = 0

\* C12 as stated: with unlocking disabled, a reset seeded with S and given no
\* override selects the stage the first such reset selected, whatever resets
\* and steps came in between.
C12_SeededSelectionRepeats ==
    [][ \A seed \in SeedValues :
            (unlock_stages = 0 /\ first_pick[seed].stage # None /\ ResetCall(seed, None)) =>
                level' = first_pick[seed].stage
      ]_vars

\* C12, with balance_steps_per_stage disabled as well: the seeded reset
\* selects the stage the first such reset selected.
C12_SeededSelectionRepeatsUnbalanced ==
    [][ \A seed \in SeedValues :
            (/\ unlock_stages = 0 /\ ~balance_steps_per_stage
             /\ first_pick[seed].stage # None /\ ResetCall(seed, None)) =>
                /\ ~res'.raised
                /\ level' = first_pick[seed].stage
      ]_vars

\* a reset seeded with 5 has selected again, after steps, what the first selected
C12_Witness ==
    /\ unlock_stages = 0 /\ ~balance_steps_per_stage
    /\ first_pick[5].again
    /\ res.op = "reset" /\ ~res.raised
    /\ np_random = [seed |-> 5, draws |-> 1]
    /\ level = first_pick[5].stage
    /\ Sum(steps_per_stage) >= 2

\* C15 as stated: seed(None) and reset(seed=None) leave the random source as
\* it was and seed(None) returns []; seed(v) reseeds it and returns [v].
C15_NoSeedLeavesSource ==
    [][ /\ SeedCall(NoSeed) => (np_random' = np_random /\ seeds_returned' = <<>>)
        /\ \A options \in OptionValues :
               ResetCall(NoSeed, options) => np_random' = np_random
        /\ \A v \in SeedValues :
               SeedCall(v) => (np_random' = [seed |-> v, draws |-> 0] /\ seeds_returned' = <<v>>)
      ]_vars

\* C15, for what reset(seed=None) does to the source: it does not reseed it,
\* it only advances it by the draws of its selection.
C15_NoSeedKeepsSeed ==
    [][ /\ SeedCall(NoSeed) => (np_random' = np_random /\ seeds_returned' = <<>>)
        /\ \A options \in OptionValues :
               ResetCall(NoSeed, options) =>
                   /\ np_random'.seed = np_random.seed
                   /\ np_random'.draws >= np_random.draws
                   /\ np_random'.draws <= np_random.draws + 2
        /\ \A v \in SeedValues :
               SeedCall(v) => (np_random' = [seed |-> v, draws |-> 0] /\ seeds_returned' = <<v>>)
      ]_vars

\* seed(5) returned [5] and a reset without a seed has drawn twice since
C15_Witness ==
    /\ seeds_returned = <<5>>
    /\ first_pick[5].stage = None
    /\ np_random = [seed |-> 5, draws |-> 2]
    /\ res.op = "reset" /\ ~res.raised

====
